---- MODULE Spec2Model ----
(***************************************************************************)
(* Model of frontend/static/script.js: the chat client's conversation      *)
(* store (messages + localStorage "gene_history"), the renderer            *)
(* (renderMessage into chatBox) and the send controller (sendMessage with  *)
(* its two suspension points, the clear-history handler).                  *)
(*                                                                         *)
(* A JavaScript string is a sequence of one-character strings.             *)
(* Host-page assumptions (the HTML is not part of the script): the chat    *)
(* box, input, send button, typing indicator and clear button exist; the   *)
(* typing indicator starts hidden, the controls start enabled and the      *)
(* chat box starts empty.  A disabled control receives no click / keydown  *)
(* event from the user (browser behaviour).                                *)
(* The contents exchanged under Spec have no <pre> block, so the timers of *)
(* line 68 change nothing there; addCopyButtons is exercised under         *)
(* SpecRender, which loads the page over one stored turn of any content.   *)
(***************************************************************************)
EXTENDS Integers, Sequences, FiniteSets, TLC

(* ----------------------------- bounds --------------------------------- *)
\* number of requests the user issues in one page session
MaxSends == 2
\* length of the contents enumerated for the renderer
MaxStrLen == 4
\* number of runs of addCopyButtons on one rendered node
MaxCopyRuns == 2

(* ------------------------- program constants -------------------------- *)
MAX_CONTEXT_MESSAGES == 20

(* ------------------------------ strings ------------------------------- *)
QUOTE == "\""
BSLASH == "\\"

S_user == <<"u", "s", "e", "r">>
S_assistant == <<"a", "s", "s", "i", "s", "t", "a", "n", "t">>
S_role == <<"r", "o", "l", "e">>
S_content == <<"c", "o", "n", "t", "e", "n", "t">>

\* White space as String.prototype.trim understands it (the model's
\* alphabet has the space only).
IsSpace(c) == c = " "

RECURSIVE trimStart(_)
trimStart(s) ==
    IF s # <<>> /\ IsSpace(Head(s)) THEN trimStart(Tail(s)) ELSE s

RECURSIVE trimEnd(_)
trimEnd(s) ==
    IF s # <<>> /\ IsSpace(s[Len(s)])
    THEN trimEnd(SubSeq(s, 1, Len(s) - 1))
    ELSE s

\* variant: only leading white space is removed
trim_startOnly(s) == trimStart(s)

\* userInput.value.trim()
trim(s) == trimEnd(trimStart(s))

(* ------------------------------- JSON --------------------------------- *)
\* JSON values: a tagged record.  Objects are sequences of key/value
\* members, arrays are sequences of values.
JStr(s) == [t |-> "str", v |-> s]
JArr(a) == [t |-> "arr", v |-> a]
JObj(m) == [t |-> "obj", v |-> m]
JNull == [t |-> "null", v |-> <<>>]
Member(k, val) == [k |-> k, val |-> val]

\* variant: only quotes are escaped
RECURSIVE escapeChars_quoteOnly(_)
escapeChars_quoteOnly(s) ==
    IF s = <<>> THEN <<>>
    ELSE (IF Head(s) = QUOTE
          THEN <<BSLASH, Head(s)>>
          ELSE <<Head(s)>>) \o escapeChars_quoteOnly(Tail(s))

\* JSON.stringify of a string: quotes and backslashes are escaped.
RECURSIVE escapeChars(_)
escapeChars(s) ==
    IF s = <<>> THEN <<>>
    ELSE (IF Head(s) = QUOTE \/ Head(s) = BSLASH
          THEN <<BSLASH, Head(s)>>
          ELSE <<Head(s)>>) \o escapeChars(Tail(s))

quoteString(s) == <<QUOTE>> \o escapeChars(s) \o <<QUOTE>>

\* JSON.stringify of one turn {role, content}: keys in insertion order.
stringifyTurn(m) ==
    <<"{">> \o quoteString(S_role) \o <<":">> \o quoteString(m.role)
    \o <<",">> \o quoteString(S_content) \o <<":">> \o quoteString(m.content)
    \o <<"}">>

RECURSIVE stringifyTurns(_)
stringifyTurns(ms) ==
    IF ms = <<>> THEN <<>>
    ELSE IF Len(ms) = 1 THEN stringifyTurn(ms[1])
    ELSE stringifyTurn(Head(ms)) \o <<",">> \o stringifyTurns(Tail(ms))

\* JSON.stringify(messages)
JSONstringify(ms) == <<"[">> \o stringifyTurns(ms) \o <<"]">>

\* JSON.parse, for the grammar  value ::= string | array | object | null
\* without insignificant white space.  Each parser takes the text and a
\* position and returns [ok, v, next].
ParseFail == [ok |-> FALSE, v |-> JNull, next |-> 0]
ParseOk(val, n) == [ok |-> TRUE, v |-> val, next |-> n]

RECURSIVE parseChars(_, _, _)
\* the characters of a string literal after its opening quote
parseChars(s, i, acc) ==
    IF i > Len(s) THEN ParseFail
    ELSE IF s[i] = QUOTE THEN ParseOk(JStr(acc), i + 1)
    ELSE IF s[i] = BSLASH
         THEN IF i + 1 <= Len(s) /\ s[i + 1] \in {QUOTE, BSLASH}
              THEN parseChars(s, i + 2, Append(acc, s[i + 1]))
              ELSE ParseFail
    ELSE parseChars(s, i + 1, Append(acc, s[i]))

parseString(s, i) ==
    IF i <= Len(s) /\ s[i] = QUOTE THEN parseChars(s, i + 1, <<>>) ELSE ParseFail

RECURSIVE parseValue(_, _)
RECURSIVE parseElements(_, _, _)
RECURSIVE parseMembers(_, _, _)

\* elements of an array after "[" or after a ","
parseElements(s, i, acc) ==
    LET e == parseValue(s, i) IN
    IF ~e.ok THEN ParseFail
    ELSE IF e.next > Len(s) THEN ParseFail
    ELSE IF s[e.next] = "]" THEN ParseOk(JArr(Append(acc, e.v)), e.next + 1)
    ELSE IF s[e.next] = "," THEN parseElements(s, e.next + 1, Append(acc, e.v))
    ELSE ParseFail

\* members of an object after "{" or after a ","
parseMembers(s, i, acc) ==
    LET k == parseString(s, i) IN
    IF ~k.ok THEN ParseFail
    ELSE IF k.next > Len(s) \/ s[k.next] # ":" THEN ParseFail
    ELSE LET e == parseValue(s, k.next + 1) IN
         IF ~e.ok THEN ParseFail
         ELSE IF e.next > Len(s) THEN ParseFail
         ELSE IF s[e.next] = "}"
              THEN ParseOk(JObj(Append(acc, Member(k.v.v, e.v))), e.next + 1)
         ELSE IF s[e.next] = ","
              THEN parseMembers(s, e.next + 1, Append(acc, Member(k.v.v, e.v)))
         ELSE ParseFail

parseValue(s, i) ==
    IF i > Len(s) THEN ParseFail
    ELSE IF s[i] = QUOTE THEN parseString(s, i)
    ELSE IF s[i] = "["
         THEN IF i + 1 <= Len(s) /\ s[i + 1] = "]"
              THEN ParseOk(JArr(<<>>), i + 2)
              ELSE parseElements(s, i + 1, <<>>)
    ELSE IF s[i] = "{"
         THEN IF i + 1 <= Len(s) /\ s[i + 1] = "}"
              THEN ParseOk(JObj(<<>>), i + 2)
              ELSE parseMembers(s, i + 1, <<>>)
    ELSE IF i + 3 <= Len(s) /\ SubSeq(s, i, i + 3) = <<"n", "u", "l", "l">>
         THEN ParseOk(JNull, i + 4)
    ELSE ParseFail

\* JSON.parse(text): [ok, v]; ok = FALSE is a thrown SyntaxError.
JSONparse(s) ==
    LET r == parseValue(s, 1) IN
    IF r.ok /\ r.next = Len(s) + 1
    THEN [ok |-> TRUE, v |-> r.v]
    ELSE [ok |-> FALSE, v |-> JNull]


\* obj[key] for a parsed value: the last member with that key; undefined
\* when there is none or when the value is not an object.
UNDEF == <<"undefined">>
RECURSIVE fieldOf(_, _, _)
fieldOf(members, key, dflt) ==
    IF members = <<>> THEN dflt
    ELSE fieldOf(Tail(members), key,
                 IF Head(members).k = key THEN Head(members).val.v ELSE dflt)

Field(o, key) == IF o.t = "obj" THEN fieldOf(o.v, key, UNDEF) ELSE UNDEF

\* variant: the field is used without the truthiness test
Truthy_always(x) == TRUE

\* JavaScript truthiness of a field value that is a string or undefined
Truthy(x) == x # UNDEF /\ x # <<>>

(* ------------------------------ inputs -------------------------------- *)
Turn(r, c) == [role |-> r, content |-> c]

T_hello == <<"h", "e", "l", "l", "o">>
T_hi_there == <<"h", "i", " ", "t", "h", "e", "r", "e">>
T_bold == <<"<", "b", ">", "x", "<", "/", "b", ">">>

\* what the user may type into the input field
InputTexts ==
    { <<>>, <<" ">>, <<" ">> \o T_hello \o <<" ">>, <<QUOTE, BSLASH>> }

\* parsed response bodies the backend may return (res.json() resolved)
ResponseData ==
    { JNull,
      JObj(<<>>),
      JObj(<<Member(<<"r", "e", "p", "l", "y">>, JStr(T_hi_there))>>),
      JObj(<<Member(<<"r", "e", "p", "l", "y">>, JStr(<<>>))>>),
      JObj(<<Member(<<"h", "t", "m", "l">>, JStr(T_bold))>>),
      JObj(<<Member(<<"r", "e", "p", "l", "y">>, JStr(T_hi_there)),
             Member(<<"h", "t", "m", "l">>, JStr(T_bold))>>) }

\* histories an earlier page session may have left in storage
H2 == <<Turn(S_user, <<"q">>), Turn(S_assistant, <<QUOTE, "a", BSLASH>>)>>

H20 == [i \in 1..20 |->
          IF i % 2 = 1 THEN Turn(S_user, <<"q", IF i % 4 = 1 THEN "1" ELSE "2">>)
                       ELSE Turn(S_assistant, <<"r", IF i % 4 = 2 THEN "1" ELSE "2">>)]

Absent == [has |-> FALSE, text |-> <<>>]
Stored(text) == [has |-> TRUE, text |-> text]

\* contents of the "gene_history" key when the page is loaded
InitStorage ==
    { Absent,
      Stored(<<>>),
      Stored(<<"{">>),
      Stored(<<"{", "}">>),
      Stored(<<"n", "u", "l", "l">>),
      Stored(<<"[", "n", "u", "l", "l", "]">>),
      Stored(JSONstringify(<<>>)),
      Stored(JSONstringify(H2)),
      Stored(JSONstringify(H20)) }

(* ------------------------------- state -------------------------------- *)
VARIABLES
    storage,          \* localStorage entry "gene_history"
    messages,         \* let messages
    chatBox,          \* children of #chat-box, in document order
    inputValue,       \* userInput.value
    sendBtnDisabled,  \* sendBtn.disabled
    inputDisabled,    \* userInput.disabled
    typingHidden,     \* typingIndicator has class "hidden"
    listening,        \* the script ran to its end: listeners are attached
    pending,          \* suspended sendMessage calls, each [pc, body]
    uncaught,         \* uncaught errors / unhandled rejections so far
    sent,             \* number of requests issued (network log)
    lastEvent,        \* the event the event loop handled last
    lastData,         \* the parsed body, when that event was a response
    lastMods          \* the modifier keys held, when it was an Enter keydown

vars == <<storage, messages, chatBox, inputValue, sendBtnDisabled,
          inputDisabled, typingHidden, listening, pending, uncaught,
          sent, lastEvent, lastData, lastMods>>

\* everything the page shows or stores (all but the observation variables)
pageVars == <<storage, messages, chatBox, inputValue, sendBtnDisabled,
              inputDisabled, typingHidden, listening, pending, uncaught>>

(* ------------------------------ renderer ------------------------------ *)
Letters ==
    { "a", "b", "c", "d", "e", "f", "g", "h", "i", "j", "k", "l", "m",
      "n", "o", "p", "q", "r", "s", "t", "u", "v", "w", "x", "y", "z",
      "A", "B", "C", "D", "E", "F", "G", "H", "I", "J", "K", "L", "M",
      "N", "O", "P", "Q", "R", "S", "T", "U", "V", "W", "X", "Y", "Z" }

\* variant: the pattern without the optional "/"
containsHTML_noSlash(s) ==
    \E i \in 1..Len(s) :
        /\ s[i] = "<"
        /\ i + 1 <= Len(s)
        /\ s[i + 1] \in Letters
        /\ \E k \in (i + 2)..Len(s) : s[k] = ">"

\* /<\/?[a-z][\s\S]*>/i.test(content)
containsHTML(s) ==
    \E i \in 1..Len(s) :
        /\ s[i] = "<"
        /\ \E j \in {i + 1, i + 2} :
              /\ j <= Len(s)
              /\ j = i + 2 => s[i + 1] = "/"
              /\ s[j] \in Letters
              /\ \E k \in (j + 1)..Len(s) : s[k] = ">"

\* marked.parse(text) of the external markdown library, for text without
\* markdown syntax: one paragraph with the HTML-special characters escaped.
RECURSIVE escapeHtml(_)
escapeHtml(s) ==
    IF s = <<>> THEN <<>>
    ELSE (IF Head(s) = "<" THEN <<"&", "l", "t", ";">>
          ELSE IF Head(s) = ">" THEN <<"&", "g", "t", ";">>
          ELSE IF Head(s) = QUOTE THEN <<"&", "q", "u", "o", "t", ";">>
          ELSE <<Head(s)>>) \o escapeHtml(Tail(s))

markedParse(s) ==
    IF s = <<>> THEN <<>>
    ELSE <<"<", "p", ">">> \o escapeHtml(s) \o <<"<", "/", "p", ">", "\n">>

\* the pattern /<img /g and its replacement
IMG_TAG == <<"<", "i", "m", "g", " ">>
IMG_STYLED ==
    <<"<", "i", "m", "g", " ", "s", "t", "y", "l", "e", "=", "'", "m", "a",
      "x", "-", "w", "i", "d", "t", "h", ":", "1", "0", "0", "%", ";", " ",
      "h", "e", "i", "g", "h", "t", ":", "a", "u", "t", "o", ";", " ", "d",
      "i", "s", "p", "l", "a", "y", ":", "b", "l", "o", "c", "k", ";", " ",
      "m", "a", "r", "g", "i", "n", ":", "1", "0", "p", "x", " ", "0", ";",
      "'", " ">>

RECURSIVE imgFix(_)
\* html.replace(/<img /g, "<img style='...' ")
imgFix(s) ==
    IF s = <<>> THEN <<>>
    ELSE IF Len(s) >= Len(IMG_TAG) /\ SubSeq(s, 1, Len(IMG_TAG)) = IMG_TAG
    THEN IMG_STYLED \o imgFix(SubSeq(s, Len(IMG_TAG) + 1, Len(s)))
    ELSE <<Head(s)>> \o imgFix(Tail(s))

\* the <pre> elements the HTML parser builds from an innerHTML string:
\* the number of "<pre>" / "<pre ...>" start tags
preCount(s) ==
    Cardinality({ i \in 1..(Len(s) - 4) :
                    /\ SubSeq(s, i, i + 3) = <<"<", "p", "r", "e">>
                    /\ s[i + 4] \in {">", " "} })

\* the div renderMessage builds: its class, how the content was inserted
\* (textContent, raw innerHTML, or innerHTML of marked.parse), the content,
\* the resulting textContent / innerHTML, and for each <pre> block in it
\* the number of .copy-btn elements it contains.  copyRuns counts the runs
\* of addCopyButtons on the div.
renderNode(role, content) ==
    IF role = S_user
    THEN [cls |-> "user", mode |-> "text", content |-> content,
          html |-> content, pres |-> <<>>, copyRuns |-> 0]
    ELSE LET src == IF content = UNDEF THEN <<>> ELSE content
             html == imgFix(IF containsHTML(content) THEN content
                            ELSE markedParse(src))
         IN [cls |-> "assistant",
             mode |-> IF containsHTML(content) THEN "html" ELSE "markdown",
             content |-> src,
             html |-> html,
             pres |-> [i \in 1..preCount(html) |-> 0],
             copyRuns |-> 0]

\* chatBox.appendChild(div)
renderMessage(box, role, content) == Append(box, renderNode(role, content))

RECURSIVE renderAll(_, _)
\* messages.forEach(m => renderMessage(m.role, m.content))
renderAll(box, ms) ==
    IF ms = <<>> THEN box
    ELSE renderAll(renderMessage(box, Head(ms).role, Head(ms).content), Tail(ms))

(* ------------------------- conversation store ------------------------- *)
\* variant: slice(-MAX_CONTEXT_MESSAGES, -1), without the newest turn
getLlmMessages_dropLast(ms) ==
    IF Len(ms) <= MAX_CONTEXT_MESSAGES THEN SubSeq(ms, 1, Len(ms) - 1)
    ELSE SubSeq(ms, Len(ms) - MAX_CONTEXT_MESSAGES + 1, Len(ms) - 1)

\* variant: slice(0, MAX_CONTEXT_MESSAGES), the oldest turns
getLlmMessages_head(ms) ==
    IF Len(ms) <= MAX_CONTEXT_MESSAGES THEN ms
    ELSE SubSeq(ms, 1, MAX_CONTEXT_MESSAGES)

\* messages.slice(-MAX_CONTEXT_MESSAGES)
getLlmMessages(ms) ==
    IF Len(ms) <= MAX_CONTEXT_MESSAGES THEN ms
    ELSE SubSeq(ms, Len(ms) - MAX_CONTEXT_MESSAGES + 1, Len(ms))

\* variant: persists only the context window
saveHistory_window(ms) == Stored(JSONstringify(getLlmMessages(ms)))

\* localStorage.setItem("gene_history", JSON.stringify(messages))
saveHistory(ms) == Stored(JSONstringify(ms))

\* localStorage.getItem("gene_history") || "[]"
storedText(st) == IF st.has /\ st.text # <<>> THEN st.text ELSE <<"[", "]">>

RECURSIVE toTurns(_)
\* the elements of the parsed array as the turns the script reads from them
toTurns(a) ==
    IF a = <<>> THEN <<>>
    ELSE <<Turn(Field(Head(a), S_role), Field(Head(a), S_content))>>
         \o toTurns(Tail(a))

RECURSIVE nonNullPrefix(_)
\* the elements forEach visits before it meets a null element
nonNullPrefix(a) ==
    IF a = <<>> \/ Head(a).t = "null" THEN <<>>
    ELSE <<Head(a)>> \o nonNullPrefix(Tail(a))

\* Top-level statements of the script, lines 25-28: the outcome of loading
\* the page over a given storage content.  err is the uncaught error that
\* aborts the script ("none" when it runs to its end).
loadPage(st) ==
    LET p == JSONparse(storedText(st)) IN
    IF ~p.ok
    THEN [err |-> "SyntaxError", messages |-> <<>>, chatBox |-> <<>>]
    ELSE IF p.v.t # "arr"
    THEN [err |-> "TypeError", messages |-> <<>>, chatBox |-> <<>>]
    ELSE LET seen == nonNullPrefix(p.v.v) IN
         IF Len(seen) < Len(p.v.v)
         THEN [err |-> "TypeError", messages |-> <<>>,
               chatBox |-> renderAll(<<>>, toTurns(seen))]
         ELSE [err |-> "none", messages |-> toTurns(p.v.v),
               chatBox |-> renderAll(<<>>, toTurns(p.v.v))]


NoData == [t |-> "none", v |-> <<>>]

(* --------------------------- initial state ---------------------------- *)
\* The page has just been loaded over the storage content st.
InitOver(st) ==
        LET r == loadPage(st) IN
        /\ storage = st
        /\ messages = r.messages
        /\ chatBox = r.chatBox
        /\ inputValue = <<>>
        /\ sendBtnDisabled = FALSE
        /\ inputDisabled = FALSE
        /\ typingHidden = TRUE
        /\ listening = (r.err = "none")
        /\ pending = <<>>
        /\ uncaught = IF r.err = "none" THEN {} ELSE {r.err}
        /\ sent = 0
        /\ lastEvent = "load"
        /\ lastData = NoData
        /\ lastMods = {}

\* The page has just been loaded over some storage content.
Init == \E st \in InitStorage : InitOver(st)

(* --------------------------- send controller -------------------------- *)
RemoveAt(q, i) == SubSeq(q, 1, i - 1) \o SubSeq(q, i + 1, Len(q))

\* variant: the early return is missing
isBlank_never(text) == FALSE

\* if (!text) return;
isBlank(text) == text = <<>>

\* variant: only the send button is disabled
DisableControls_buttonOnly ==
    sendBtnDisabled' = TRUE /\ inputDisabled' = inputDisabled

\* sendBtn.disabled = true; userInput.disabled = true;
DisableControls == sendBtnDisabled' = TRUE /\ inputDisabled' = TRUE

\* sendBtn.disabled = false; userInput.disabled = false;
EnableControls == sendBtnDisabled' = FALSE /\ inputDisabled' = FALSE

\* variant: the conversation itself is cut to the context window before
\* the user turn is pushed
sendMessage_truncates ==
    LET text == trim(inputValue) IN
    IF isBlank(text)
    THEN UNCHANGED <<pageVars, sent>>
    ELSE LET pushed == Append(getLlmMessages(messages), Turn(S_user, text)) IN
         /\ DisableControls
         /\ chatBox' = renderMessage(chatBox, S_user, text)
         /\ messages' = pushed
         /\ storage' = saveHistory(pushed)
         /\ inputValue' = <<>>
         /\ typingHidden' = FALSE
         /\ pending' = Append(pending,
                              [pc |-> "fetch", body |-> getLlmMessages(pushed)])
         /\ sent' = sent + 1
         /\ UNCHANGED <<listening, uncaught>>

\* sendMessage() from its call to its first await (the fetch is issued)
sendMessage ==
    LET text == trim(inputValue) IN
    IF isBlank(text)
    THEN UNCHANGED <<pageVars, sent>>
    ELSE LET pushed == Append(messages, Turn(S_user, text)) IN
         /\ DisableControls
         /\ chatBox' = renderMessage(chatBox, S_user, text)
         /\ messages' = pushed
         /\ storage' = saveHistory(pushed)
         /\ inputValue' = <<>>
         /\ typingHidden' = FALSE
         /\ pending' = Append(pending,
                              [pc |-> "fetch", body |-> getLlmMessages(pushed)])
         /\ sent' = sent + 1
         /\ UNCHANGED <<listening, uncaught>>

\* the user types into the input field (possible only while it is enabled)
TypeInput ==
    /\ ~inputDisabled
    /\ \E v \in InputTexts \ {inputValue} : inputValue' = v
    /\ lastEvent' = "input" /\ lastData' = NoData /\ lastMods' = {}
    /\ UNCHANGED <<storage, messages, chatBox, sendBtnDisabled, inputDisabled,
                   typingHidden, listening, pending, uncaught, sent>>

\* sendBtn "click" listener
ClickSend ==
    /\ listening
    /\ ~sendBtnDisabled
    /\ sent < MaxSends
    /\ lastEvent' = "click" /\ lastData' = NoData /\ lastMods' = {}
    /\ sendMessage

\* modifier keys that may be held when Enter is pressed
KeyModifiers ==
    { {}, {"shift"}, {"ctrl"}, {"alt"}, {"meta"}, {"ctrl", "shift"} }

\* variant: the Shift test is missing
submitsOnEnter_always(mods) == TRUE

\* e.key === "Enter" && !e.shiftKey, for a keydown of Enter
submitsOnEnter(mods) == "shift" \notin mods

\* userInput "keydown" listener, for a keydown of Enter
KeyEnter ==
    /\ listening
    /\ ~inputDisabled
    /\ sent < MaxSends
    /\ lastEvent' = "enter" /\ lastData' = NoData
    /\ \E mods \in KeyModifiers :
          /\ lastMods' = mods
          /\ IF submitsOnEnter(mods)
             THEN sendMessage
             ELSE UNCHANGED <<pageVars, sent>>

\* variant: an assistant placeholder turn is pushed as soon as the response
\* headers arrive, while the body is still awaited
FetchResolves_pushesEarly ==
    \E i \in 1..Len(pending) :
        /\ pending[i].pc = "fetch"
        /\ pending' = [pending EXCEPT ![i].pc = "json"]
        /\ messages' = Append(messages, Turn(S_assistant, <<".">>))
        /\ storage' = saveHistory(messages')
        /\ lastEvent' = "fetchResolved" /\ lastData' = NoData /\ lastMods' = {}
        /\ UNCHANGED <<chatBox, inputValue, sendBtnDisabled,
                       inputDisabled, typingHidden, listening, uncaught, sent>>

\* await fetch(...) resolves with a response
FetchResolves ==
    \E i \in 1..Len(pending) :
        /\ pending[i].pc = "fetch"
        /\ pending' = [pending EXCEPT ![i].pc = "json"]
        /\ lastEvent' = "fetchResolved" /\ lastData' = NoData /\ lastMods' = {}
        /\ UNCHANGED <<storage, messages, chatBox, inputValue, sendBtnDisabled,
                       inputDisabled, typingHidden, listening, uncaught, sent>>

\* variant: the controls are re-enabled when the request fails
FetchRejects_reenables ==
    \E i \in 1..Len(pending) :
        /\ pending[i].pc = "fetch"
        /\ pending' = RemoveAt(pending, i)
        /\ uncaught' = uncaught \cup {"FetchError"}
        /\ lastEvent' = "fetchRejected" /\ lastData' = NoData /\ lastMods' = {}
        /\ EnableControls
        /\ UNCHANGED <<storage, messages, chatBox, inputValue,
                       typingHidden, listening, sent>>

\* await fetch(...) rejects: the rejection of sendMessage's promise is unhandled
FetchRejects ==
    \E i \in 1..Len(pending) :
        /\ pending[i].pc = "fetch"
        /\ pending' = RemoveAt(pending, i)
        /\ uncaught' = uncaught \cup {"FetchError"}
        /\ lastEvent' = "fetchRejected" /\ lastData' = NoData /\ lastMods' = {}
        /\ UNCHANGED <<storage, messages, chatBox, inputValue, sendBtnDisabled,
                       inputDisabled, typingHidden, listening, sent>>

\* await res.json() rejects: the body is not JSON
JsonRejects ==
    \E i \in 1..Len(pending) :
        /\ pending[i].pc = "json"
        /\ pending' = RemoveAt(pending, i)
        /\ uncaught' = uncaught \cup {"BodyError"}
        /\ lastEvent' = "bodyRejected" /\ lastData' = NoData /\ lastMods' = {}
        /\ UNCHANGED <<storage, messages, chatBox, inputValue, sendBtnDisabled,
                       inputDisabled, typingHidden, listening, sent>>

\* await res.json() resolves with data: sendMessage runs to its end
JsonResolves ==
    \E i \in 1..Len(pending), data \in ResponseData :
        /\ pending[i].pc = "json"
        /\ pending' = RemoveAt(pending, i)
        /\ typingHidden' = TRUE
        /\ lastEvent' = "response"
        /\ lastData' = data
        /\ lastMods' = {}
        /\ IF data.t = "null"
           THEN \* data.reply throws a TypeError
                /\ uncaught' = uncaught \cup {"TypeError"}
                /\ UNCHANGED <<storage, messages, chatBox, inputValue,
                               sendBtnDisabled, inputDisabled, listening, sent>>
           ELSE LET reply == Field(data, <<"r", "e", "p", "l", "y">>)
                    html == Field(data, <<"h", "t", "m", "l">>)
                    box1 == IF Truthy(reply)
                            THEN renderMessage(chatBox, S_assistant, reply)
                            ELSE chatBox
                    msgs1 == IF Truthy(reply)
                             THEN Append(messages, Turn(S_assistant, reply))
                             ELSE messages
                    box2 == IF Truthy(html)
                            THEN renderMessage(box1, S_assistant, html)
                            ELSE box1
                IN /\ chatBox' = box2
                   /\ messages' = msgs1
                   /\ storage' = saveHistory(msgs1)
                   /\ EnableControls
                   /\ UNCHANGED <<inputValue, listening, uncaught, sent>>

\* The user clicks the disabled send button or presses Enter in the
\* disabled input: the browser dispatches no event to the listeners.
IgnoredSubmit ==
    /\ \/ sendBtnDisabled /\ lastEvent' = "clickIgnored"
       \/ inputDisabled /\ lastEvent' = "enterIgnored"
    /\ lastData' = NoData /\ lastMods' = {}
    /\ UNCHANGED <<pageVars, sent>>

\* variant: the stored copy is not removed
ClearChat_keepsStorage ==
    /\ listening
    /\ messages' = <<>>
    /\ chatBox' = <<>>
    /\ lastEvent' = "clear" /\ lastData' = NoData /\ lastMods' = {}
    /\ UNCHANGED <<storage, inputValue, sendBtnDisabled, inputDisabled,
                   typingHidden, listening, pending, uncaught, sent>>

\* clearChatBtn.onclick
ClearChat ==
    /\ listening
    /\ messages' = <<>>
    /\ storage' = Absent
    /\ chatBox' = <<>>
    /\ lastEvent' = "clear" /\ lastData' = NoData /\ lastMods' = {}
    /\ UNCHANGED <<inputValue, sendBtnDisabled, inputDisabled, typingHidden,
                   listening, pending, uncaught, sent>>

Next ==
    \/ TypeInput
    \/ ClickSend
    \/ KeyEnter
    \/ IgnoredSubmit
    \/ FetchResolves
    \/ FetchRejects
    \/ JsonRejects
    \/ JsonResolves
    \/ ClearChat

Spec == Init /\ [][Next]_vars

(* ---------------------- renderer on its own --------------------------- *)
\* variant: the test for an existing button is missing
addCopyButtons_noCheck(node) ==
    [node EXCEPT !.pres = [i \in DOMAIN @ |-> @[i] + 1]]

\* addCopyButtons(div): every <pre> block without a .copy-btn gets one
addCopyButtons(node) ==
    [node EXCEPT !.pres = [i \in DOMAIN @ |-> IF @[i] > 0 THEN @[i]
                                                ELSE @[i] + 1]]

\* addCopyButtons runs on a rendered div (the timer of line 68 fires; the
\* run is repeated up to MaxCopyRuns times)
RunAddCopyButtons ==
    /\ \E i \in 1..Len(chatBox) :
          /\ chatBox[i].copyRuns < MaxCopyRuns
          /\ chatBox' = [chatBox EXCEPT
                           ![i] = [addCopyButtons(@) EXCEPT
                                     !.copyRuns = @ + 1]]
    /\ lastEvent' = "timer" /\ lastData' = NoData /\ lastMods' = {}
    /\ UNCHANGED <<storage, messages, inputValue, sendBtnDisabled,
                   inputDisabled, typingHidden, listening, pending,
                   uncaught, sent>>

T_pre(c) == <<"<", "p", "r", "e", ">", c, "<", "/", "p", "r", "e", ">">>

\* contents the renderer is applied to: every string of at most MaxStrLen
\* characters over a small alphabet, and samples with img and pre tags
RenderAlphabet == {"<", ">", "/", "b", "1"}

RenderSamples ==
    { <<"<", "i", "m", "g", " ", "a", ">">>,
      <<"<", "I", "M", "G", " ", "a", ">">>,
      <<"<", "i", "m", "g", ">">>,
      <<"x", "<", "i", "m", "g", " ", "a", ">", "<", "i", "m", "g", " ", "b", ">">>,
      T_pre("x"),
      T_pre("a") \o T_pre("b") }

RenderInputs ==
    UNION { [1..k -> RenderAlphabet] : k \in 0..MaxStrLen } \cup RenderSamples

\* The page is loaded over a stored history of one turn, which line 28
\* renders.
InitRender ==
    \E role \in {S_user, S_assistant}, c \in RenderInputs :
        InitOver(Stored(JSONstringify(<<Turn(role, c)>>)))

NextRender == RunAddCopyButtons

SpecRender == InitRender /\ [][NextRender]_vars


(* ============================ properties ============================== *)
Last(q) == q[Len(q)]
Min(a, b) == IF a <= b THEN a ELSE b

\* the conversation a page load over storage content st would restore
Restored(st) == loadPage(st).messages
RestoreOk(st) == loadPage(st).err = "none"

AssistantAppended ==
    Len(messages') = Len(messages) + 1 /\ Last(messages').role = S_assistant

UserAppended ==
    Len(messages') = Len(messages) + 1 /\ Last(messages').role = S_user

\* C1: whenever the script is running and control is with the event loop,
\* restoring from the stored history yields exactly the in-memory
\* conversation (an absent key restores to the empty conversation).
C1_PersistedMatchesMemory ==
    listening => RestoreOk(storage) /\ Restored(storage) = messages

\* C1 witness: after a response appended a reply, with a conversation of more
\* than MAX_CONTEXT_MESSAGES turns held in storage.
C1_Witness ==
    /\ lastEvent = "response"
    /\ storage.has
    /\ Len(messages) > MAX_CONTEXT_MESSAGES
    /\ Last(messages).role = S_assistant
    /\ Restored(storage) = messages

\* C2: at most one request is outstanding, and while one is outstanding no
\* step issues a request or appends a user turn: both submit controls are
\* disabled, so a click or Enter reaches no listener.
C2_SingleFlight ==
    /\ [](Len(pending) <= 1)
    /\ [](pending # <<>> => sendBtnDisabled /\ inputDisabled)
    /\ [][pending # <<>> => sent' = sent /\ ~UserAppended]_vars

\* C2 witness: the user tried to submit while the second request of the
\* session was outstanding.
C2_Witness ==
    /\ lastEvent \in {"clickIgnored", "enterIgnored"}
    /\ Len(pending) = 1
    /\ sent = 2

\* C3: a step that issues a request has appended the user turn and
\* persisted the conversation, and the request carries that turn; a step
\* appends an assistant turn only by completing a call whose response has
\* been received, after which no request is outstanding, and persists it.
C3_SendCycleOrder ==
    [][ /\ sent' > sent =>
            /\ UserAppended
            /\ SubSeq(messages', 1, Len(messages)) = messages
            /\ Restored(storage') = messages'
            /\ Len(pending') = Len(pending) + 1
            /\ Last(pending').pc = "fetch"
            /\ Last(Last(pending').body) = Last(messages')
        /\ AssistantAppended =>
            /\ \E i \in 1..Len(pending) :
                  pending[i].pc = "json" /\ pending' = RemoveAt(pending, i)
            /\ pending' = <<>>
            /\ sent' = sent
            /\ Restored(storage') = messages'
      ]_vars

\* C3 witness: a completed cycle: user turn, then the reply to it.
C3_Witness ==
    /\ lastEvent = "response"
    /\ sent >= 1
    /\ pending = <<>>
    /\ Len(messages) >= 2
    /\ Last(messages) = Turn(S_assistant, T_hi_there)
    /\ messages[Len(messages) - 1].role = S_user


\* the stored text is absent, unparseable or not a sequence
StoredUnusable(st) ==
    \/ ~st.has
    \/ ~JSONparse(st.text).ok
    \/ JSONparse(st.text).v.t # "arr"

\* C4: page load raises no error whatever the stored content, the page
\* goes on to initialise (the listeners are attached), and an absent or
\* unusable stored text gives the empty conversation.
C4_RestoreFailsSoft ==
    lastEvent = "load" =>
        /\ uncaught = {}
        /\ listening
        /\ StoredUnusable(storage) => messages = <<>>

\* the last Min(Len(ms), 20) elements of ms, in order
IsWindowOf(w, ms) ==
    LET n == Len(ms)
        k == Min(n, 20)
    IN /\ Len(w) = k
       /\ \A i \in 1..k : w[i] = ms[n - k + i]

\* C5: the context window of the conversation is its last min(n, 20)
\* turns in order; a step that issues a request only appends the user turn
\* (conversation and storage are otherwise as before, nothing is truncated)
\* and the request body is the window of the conversation after the append.
C5_ContextWindow ==
    /\ [](IsWindowOf(getLlmMessages(messages), messages))
    /\ [](Len(getLlmMessages(messages)) <= 20)
    /\ [][sent' > sent =>
            /\ SubSeq(messages', 1, Len(messages)) = messages
            /\ UserAppended
            /\ Restored(storage') = messages'
            /\ IsWindowOf(Last(pending').body, messages')
         ]_vars

\* C5 witness: a request was issued from a conversation of more than 20
\* turns; its body has 20 turns and starts after the first turn.
C5_Witness ==
    /\ pending # <<>>
    /\ Len(messages) > 20
    /\ Len(pending[1].body) = 20
    /\ pending[1].body[1] # messages[1]
    /\ Last(pending[1].body) = Last(messages)

Failed == uncaught \cap {"FetchError", "BodyError"} # {}

ControlsDisabled == sendBtnDisabled /\ inputDisabled

\* C6: the step at which the request fails or the body turns out
\* unparseable changes neither conversation, storage nor display; from then
\* on both controls are disabled in every state and no assistant turn is
\* ever appended.
C6_FailureLeavesAwaiting ==
    /\ [](Failed => ControlsDisabled)
    /\ [][lastEvent' \in {"fetchRejected", "bodyRejected"} =>
            /\ messages' = messages
            /\ storage' = storage
            /\ chatBox' = chatBox
            /\ ControlsDisabled'
         ]_vars
    /\ [][Failed => ~AssistantAppended /\ ControlsDisabled']_vars

\* C6 witness: the body of the response was unparseable; the user turn is
\* still the last turn and is in storage.
C6_Witness ==
    /\ lastEvent = "bodyRejected"
    /\ "BodyError" \in uncaught
    /\ ControlsDisabled
    /\ messages # <<>>
    /\ Last(messages).role = S_user
    /\ Restored(storage) = messages

\* C7: every parsed response returns the controller to Idle (indicator
\* hidden, both controls enabled), and a response with a textual reply
\* field appends exactly one assistant turn with that content, persisted.
C7_ResponseReturnsToIdle ==
    [][lastEvent' = "response" =>
          /\ typingHidden'
          /\ ~sendBtnDisabled'
          /\ ~inputDisabled'
          /\ Field(lastData', <<"r", "e", "p", "l", "y">>) # UNDEF =>
                /\ messages' = Append(messages,
                       Turn(S_assistant,
                            Field(lastData', <<"r", "e", "p", "l", "y">>)))
                /\ Restored(storage') = messages'
      ]_vars

AllSpaces(s) == \A i \in 1..Len(s) : s[i] = " "

\* C8: a click or Enter whose input is empty or all white space changes
\* nothing of the page (conversation, storage, display, controls,
\* indicator, input) and issues no request.
C8_BlankSubmitNoOp ==
    [][(lastEvent' \in {"click", "enter"} /\ AllSpaces(inputValue)) =>
          UNCHANGED <<pageVars, sent>>]_vars

\* C8 witness: Enter was pressed on a white-space-only input.
C8_Witness ==
    /\ lastEvent = "enter"
    /\ inputValue = <<" ">>
    /\ pending = <<>>

\* C9: the clear handler leaves the conversation empty and the stored copy
\* removed, so that a restore yields the empty conversation.
C9_ClearEmptiesBoth ==
    [][lastEvent' = "clear" =>
          /\ messages' = <<>>
          /\ ~storage'.has
          /\ RestoreOk(storage')
          /\ Restored(storage') = <<>>
      ]_vars

\* C9 witness: history was cleared while a reply was awaited.
C9_Witness ==
    /\ lastEvent = "clear"
    /\ pending # <<>>
    /\ sent = 2
    /\ messages = <<>>
    /\ storage = Absent

\* C10: serialising the conversation as saveHistory does and restoring
\* from the result gives back the same sequence of turns.
C10_RoundTrip ==
    /\ RestoreOk(saveHistory(messages))
    /\ Restored(saveHistory(messages)) = messages

\* C10 witness: turns whose contents need escaping were appended and
\* saved, and the stored text restores to the conversation.
C10_Witness ==
    /\ Len(messages) >= 3
    /\ \E i \in 1..Len(messages) : messages[i].content = <<QUOTE, BSLASH>>
    /\ \E i \in 1..Len(messages) : messages[i].content = <<QUOTE, "a", BSLASH>>
    /\ storage = saveHistory(messages)
    /\ Restored(storage) = messages


F_reply == <<"r", "e", "p", "l", "y">>
F_html == <<"h", "t", "m", "l">>

\* C11: a response object with neither a reply nor an html field appends
\* no turn and renders nothing (conversation and display are as before
\* the response) and re-enables both controls.
C11_MissingFieldsNoTurn ==
    [][(/\ lastEvent' = "response"
        /\ lastData'.t = "obj"
        /\ Field(lastData', F_reply) = UNDEF
        /\ Field(lastData', F_html) = UNDEF) =>
          /\ messages' = messages
          /\ chatBox' = chatBox
          /\ ~sendBtnDisabled'
          /\ ~inputDisabled'
      ]_vars

\* C11 witness: the response {} was handled; the conversation still ends
\* with the user turn and the controls are enabled.
C11_Witness ==
    /\ lastEvent = "response"
    /\ lastData = JObj(<<>>)
    /\ messages # <<>>
    /\ Last(messages).role = S_user
    /\ ~sendBtnDisabled
    /\ ~inputDisabled


\* C12: a keydown of Enter with any modifier key held appends no user turn
\* and issues no request.
C12_EnterWithModifierIgnored ==
    [][(lastEvent' = "enter" /\ lastMods' # {}) =>
          sent' = sent /\ ~UserAppended]_vars

\* C12 as amended: a keydown of Enter with Shift held (alone or with other
\* modifiers) changes nothing of the page and issues no request.
C12_EnterWithShiftIgnored ==
    [][(lastEvent' = "enter" /\ "shift" \in lastMods') =>
          UNCHANGED <<pageVars, sent>>]_vars

\* C12 witness: Shift+Enter was pressed on an input that a plain Enter
\* would have submitted.
C12_Witness ==
    /\ lastEvent = "enter"
    /\ lastMods = {"shift"}
    /\ ~AllSpaces(inputValue)
    /\ ~inputDisabled
    /\ pending = <<>>


\* s contains "<" immediately followed by a letter
HasLtLetter(s) ==
    \E i \in 1..(Len(s) - 1) : s[i] = "<" /\ s[i + 1] \in Letters

\* s contains "<", then optionally "/", then a letter, and a ">" somewhere
\* after that letter
HasTagLike(s) ==
    \E i \in 1..Len(s), k \in 1..Len(s) :
        /\ s[i] = "<"
        /\ s[k] = ">"
        /\ \/ i + 1 < k /\ s[i + 1] \in Letters
           \/ i + 2 < k /\ s[i + 1] = "/" /\ s[i + 2] \in Letters

\* s contains the sequence t
Contains(s, t) ==
    \E i \in 1..(Len(s) - Len(t) + 1) : SubSeq(s, i, i + Len(t) - 1) = t

\* C13: user content is inserted as plain text; assistant content is
\* inserted verbatim as HTML exactly when it contains "<" immediately
\* followed by a letter, and converted from markdown otherwise ("verbatim"
\* is read apart from the img style rewrite).
C13_RenderMode ==
    \A n \in 1..Len(chatBox) :
        LET d == chatBox[n] IN
        /\ d.cls = "user" => d.mode = "text" /\ d.html = d.content
        /\ d.cls = "assistant" =>
              /\ d.mode = (IF HasLtLetter(d.content) THEN "html" ELSE "markdown")
              /\ (d.mode = "html" /\ ~Contains(d.content, IMG_TAG)) =>
                    d.html = d.content

\* C13 as amended: user content is inserted as plain text; assistant
\* content is inserted as HTML exactly when it contains "<", optionally
\* "/", a letter and a later ">" (verbatim when it has no "<img "), and is
\* converted from markdown otherwise.
C13_RenderModeTagLike ==
    \A n \in 1..Len(chatBox) :
        LET d == chatBox[n] IN
        /\ d.cls = "user" => d.mode = "text" /\ d.html = d.content
        /\ d.cls = "assistant" =>
              /\ d.mode = (IF HasTagLike(d.content) THEN "html" ELSE "markdown")
              /\ (d.mode = "html" /\ ~Contains(d.content, IMG_TAG)) =>
                    d.html = d.content
              /\ d.mode = "markdown" => d.html = imgFix(markedParse(d.content))

\* C13 witness: assistant content "</b>" (no "<" directly before a letter)
\* was rendered, and inserted as HTML.
C13_Witness ==
    /\ Len(chatBox) = 1
    /\ chatBox[1].cls = "assistant"
    /\ chatBox[1].content = <<"<", "/", "b", ">">>
    /\ chatBox[1].mode = "html"
    /\ chatBox[1].html = chatBox[1].content

AllOnes(f) == \A i \in DOMAIN f : f[i] = 1

\* C19: once addCopyButtons has run on a rendered node, however often,
\* every pre block of the node has exactly one copy button.
C19_CopyButtonsIdempotent ==
    \A n \in 1..Len(chatBox) :
        chatBox[n].copyRuns >= 1 => AllOnes(chatBox[n].pres)

\* C19 witness: addCopyButtons ran twice on a node with two pre blocks.
C19_Witness ==
    \E n \in 1..Len(chatBox) :
        /\ chatBox[n].copyRuns = 2
        /\ Len(chatBox[n].pres) = 2
        /\ AllOnes(chatBox[n].pres)

\* an img start tag begins at position i of s, in any letter case, followed
\* by a space, "/" or ">"
ImgTagAt(s, i) ==
    /\ i + 4 <= Len(s)
    /\ s[i] = "<"
    /\ s[i + 1] \in {"i", "I"}
    /\ s[i + 2] \in {"m", "M"}
    /\ s[i + 3] \in {"g", "G"}
    /\ s[i + 4] \in {" ", "/", ">"}

StyledAt(s, i) ==
    /\ i + Len(IMG_STYLED) - 1 <= Len(s)
    /\ SubSeq(s, i + 4, i + Len(IMG_STYLED) - 1)
         = SubSeq(IMG_STYLED, 5, Len(IMG_STYLED))

\* C20: every img tag in the HTML of a rendered assistant node, whatever
\* its letter case and whatever follows the tag name, carries the inline
\* style.
C20_EveryImgStyled ==
    \A n \in 1..Len(chatBox) :
        chatBox[n].cls = "assistant" =>
            \A i \in 1..Len(chatBox[n].html) :
                ImgTagAt(chatBox[n].html, i) => StyledAt(chatBox[n].html, i)


\* C14: the chat display is exactly the rendering of the turns of the
\* conversation, one node per turn in order, so that a reload (restore and
\* re-render) shows the same sequence.
C14_DisplayMatchesConversation ==
    listening =>
        /\ chatBox = renderAll(<<>>, messages)
        /\ chatBox = loadPage(storage).chatBox

\* s without its leading and trailing spaces
Trimmed(s) ==
    LET idx == { i \in 1..Len(s) : s[i] # " " } IN
    IF idx = {} THEN <<>>
    ELSE SubSeq(s, CHOOSE i \in idx : \A j \in idx : i <= j,
                   CHOOSE i \in idx : \A j \in idx : i >= j)

\* a send cycle has started and has not run to its end
InCycle == pending # <<>> \/ (listening /\ uncaught # {})

\* C15: a step that issues a request leaves both controls disabled, the
\* indicator shown, the input empty and the conversation extended by one
\* user turn holding the trimmed input; and in every state the send button
\* is disabled exactly when the input is, exactly when a send cycle has
\* started and not completed.
C15_AwaitingReplyEntry ==
    /\ [](sendBtnDisabled = inputDisabled)
    /\ [](sendBtnDisabled = InCycle)
    /\ [][sent' > sent =>
            /\ ~AllSpaces(inputValue)
            /\ sendBtnDisabled' /\ inputDisabled'
            /\ ~typingHidden'
            /\ inputValue' = <<>>
            /\ messages' = Append(messages, Turn(S_user, Trimmed(inputValue)))
         ]_vars
    /\ [][(lastEvent' = "click" /\ ~AllSpaces(inputValue)) => sent' > sent]_vars

\* C15 witness: " hello " was submitted by a click; the page awaits the reply.
C15_Witness ==
    /\ lastEvent = "click"
    /\ pending # <<>>
    /\ sendBtnDisabled /\ inputDisabled
    /\ ~typingHidden
    /\ inputValue = <<>>
    /\ Last(messages) = Turn(S_user, T_hello)

\* C16: every step other than clear keeps the previous conversation as a
\* prefix of the new one and appends at most one turn.
C16_AppendOnly ==
    [][lastEvent' # "clear" =>
          /\ Len(messages) <= Len(messages')
          /\ Len(messages') <= Len(messages) + 1
          /\ SubSeq(messages', 1, Len(messages)) = messages
      ]_vars

\* C16 witness: a restored conversation of 20 turns has grown by a full
\* second cycle and still starts with the restored turns.
C16_Witness ==
    /\ lastEvent = "response"
    /\ sent = 2
    /\ Len(messages) > 22
    /\ SubSeq(messages, 1, 20) = H20
    /\ Last(messages).role = S_assistant

\* C17: every assistant turn of the conversation directly follows a user
\* turn.
C17_AssistantFollowsUser ==
    listening =>
        \A i \in 1..Len(messages) :
            messages[i].role = S_assistant =>
                i > 1 /\ messages[i - 1].role = S_user

\* C18: the request issued by a step carries a non-empty list whose last
\* element is the user turn just submitted (the trimmed input) and whose
\* elements are all turns of the conversation after the append.
C18_RequestCarriesUserTurn ==
    [][sent' > sent =>
          LET b == Last(pending').body IN
          /\ b # <<>>
          /\ Last(b) = Turn(S_user, Trimmed(inputValue))
          /\ Last(b) = Last(messages')
          /\ \A k \in 1..Len(b) : \E j \in 1..Len(messages') : messages'[j] = b[k]
      ]_vars

\* C18 witness: a request is outstanding whose list has earlier turns and
\* ends with the submitted user turn "hello".
C18_Witness ==
    /\ Len(pending) = 1
    /\ Len(pending[1].body) >= 2
    /\ Last(pending[1].body) = Turn(S_user, T_hello)
    /\ lastEvent \in {"click", "enter"}

====
